---------------------------- MODULE Spec2Model ----------------------------
(***************************************************************************)
(* The account-leaf key rows of the MPT circuit                            *)
(* (zkevm-circuits/src/mpt_circuit/account_leaf/account_leaf_key.rs).      *)
(*                                                                         *)
(* AccountLeafKeyConfig::configure declares the constraints of an          *)
(* ACCOUNT_LEAF_KEY_S / ACCOUNT_LEAF_KEY_C row; AccountLeafKeyConfig::     *)
(* assign fills the advice cells of such a row from the witness row and    *)
(* the per-proof ProofValues.  The model runs assign on a witness row,     *)
(* lets a prover overwrite one advice cell, and then evaluates every       *)
(* constraint of configure on the resulting cells.  Field elements are     *)
(* the integers modulo the prime P.                                        *)
(*                                                                         *)
(* The state-test harness (evm-testvectors/src/statetest.rs) is modelled   *)
(* next to it: StateTest::run with its steps in order, and                 *)
(* StateTest::check_post, which compares the expected accounts of a test   *)
(* with the state of the input builder.                                    *)
(***************************************************************************)
EXTENDS Integers, Sequences, FiniteSets, TLC

VARIABLES
    rowType,     \* row.get_type(): "AccountLeafKeyS" or "AccountLeafKeyC"
    row,         \* row.bytes: the 68 bytes of s_main and c_main
    delete_byte, \* row.get_byte_rev(IS_ACCOUNT_DELETE_MOD_POS)
    cells,       \* the cells configure reads in the rows above and in proof_type
    address_rlc, \* the address_rlc column at the leaf row
    pv,          \* ProofValues
    adv,         \* the advice cells of the leaf row that assign writes
    loc,         \* locals of assign
    leaf,        \* the rows of the leaf assigned so far, with their start values
    cfg,         \* the expressions and constraints of configure, evaluated
    pc,
    test,        \* a StateTest, its StateTestConfig and what its collaborators answer
    hpc,         \* the position of StateTest::run
    result,      \* what StateTest::run returned
    log          \* the calls StateTest::run has made, in order

cvars == <<rowType, row, delete_byte, cells, address_rlc, pv, adv, loc, leaf, cfg, pc>>
hvars == <<test, hpc, result, log>>
vars == <<rowType, row, delete_byte, cells, address_rlc, pv, adv, loc, leaf, cfg,
          pc, test, hpc, result, log>>

\* no state test is running
NoTest == [id |-> "none"]
NoResult == [kind |-> "none"]
HarnessIdle ==
    /\ test = NoTest
    /\ hpc = "idle"
    /\ result = NoResult
    /\ log = << >>

---------------------------------------------------------------------------
(* The field F: FieldExt, here the integers modulo a prime.                *)

P == 10007

\* the challenge mpt_config.randomness (assign) = ctx.r[0] (configure)
R == 7

F(n) == n % P
FAdd(a, b) == (a + b) % P
FSub(a, b) == (((a - b) % P) + P) % P
FMul(a, b) == ((a % P) * (b % P)) % P

\* gadgets::util::not
FNot(a) == FSub(1, a)

\* gadgets::util::or::expr on two expressions: 1 - (1 - a) * (1 - b)
FOr(a, b) == FSub(1, FMul(FNot(a), FNot(b)))

\* ifx!{c => {a}}: the value a under the condition c, 0 otherwise
IfX(c, a) == FMul(c, a)

\* ifx!{c => {a} elsex {b}}
IfElseX(c, a, b) == FAdd(FMul(c, a), FMul(FNot(c), b))

\* require!(a => b) under the condition c: the polynomial c * (a - b) is zero
Require(c, a, b) == FMul(c, FSub(a, b)) = 0

ROW_LEN == 68

\* the powers r^0 .. r^68 of the challenge, RPowSeq[i + 1] = r^i
RECURSIVE RPowers(_)
RPowers(n) ==
    IF n = 0 THEN <<1>>
    ELSE LET s == RPowers(n - 1) IN Append(s, FMul(s[n], R))

RPowSeq == RPowers(ROW_LEN)
RPow(i) == RPowSeq[i + 1]

\* ctx.r: the powers r^1 .. r^64 of the challenge
HASH_WIDTH == 32
RVec == SubSeq(RPowSeq, 2, 2 * HASH_WIDTH + 1)

Min(a, b) == IF a < b THEN a ELSE b

\* rlc::expr(expressions, randomness):
\* expressions[0] + sum of expressions[i] * randomness[i - 1], zipped
RECURSIVE RlcFold(_, _, _)
RlcFold(vals, rand, n) ==
    IF n = 0 THEN vals[1]
    ELSE FAdd(RlcFold(vals, rand, n - 1), FMul(vals[n + 1], rand[n]))

RlcExpr(vals, rand) ==
    IF Len(vals) = 0 THEN 0
    ELSE RlcFold(vals, rand, Min(Len(vals) - 1, Len(rand)))

---------------------------------------------------------------------------
(* Witness rows.                                                           *)

\* the byte at 0-based index i of the row (s_main.rlp1 is index 0,
\* s_main.bytes[0] index 2, c_main.rlp1 index 34, c_main.rlp2 index 35)
Byte(i) == row[i + 1]

---------------------------------------------------------------------------
(* AccountLeafKeyConfig::configure: the expressions.                       *)

is_s == rowType = "AccountLeafKeyS"

\* BranchNodeInfo::new(meta, s_main, is_s, rot_branch_init).is_placeholder():
\* the placeholder flag of this row's side of the branch above
BranchIsPlaceholder ==
    IF is_s THEN cells.is_branch_s_placeholder
    ELSE cells.is_branch_c_placeholder

\* the first 36 cells of the row: s_main.rlp_bytes() ++ c_main.rlp_bytes()
RlpBytes36 == SubSeq(row, 1, 36)

\* the intermediate RLC that acc_s.rlc has to hold
AccRlcExpr == RlcExpr(RlpBytes36, RVec)

\* the placeholder flag read without the first-level gate
IsBranchPlaceholderUngated == BranchIsPlaceholder

IsBranchPlaceholder == IfX(cells.not_first_level, BranchIsPlaceholder)

\* the seven products of the placeholder parity formula
PlaceholderParityTerms ==
    LET b == cells IN
    << FMul(FNot(b.is_extension), b.is_c1),
       FMul(b.is_short_c16, b.is_c16),
       FMul(b.is_short_c1, b.is_c1),
       FMul(b.is_long_even_c16, b.is_c1),
       FMul(b.is_long_even_c1, b.is_c16),
       FMul(b.is_long_odd_c16, b.is_c16),
       FMul(b.is_long_odd_c1, b.is_c1) >>

\* the parity of a plain branch added whether or not the node is an extension
PlaceholderIsC16BranchTermUngated ==
    LET b == cells IN
    FAdd(b.is_c1,
    FAdd(FMul(b.is_short_c16, b.is_c16),
    FAdd(FMul(b.is_short_c1, b.is_c1),
    FAdd(FMul(b.is_long_even_c16, b.is_c1),
    FAdd(FMul(b.is_long_even_c1, b.is_c16),
    FAdd(FMul(b.is_long_odd_c16, b.is_c16),
         FMul(b.is_long_odd_c1, b.is_c1)))))))

\* is_c16 of a leaf below a placeholder branch, from the parallel branch
PlaceholderIsC16 ==
    LET b == cells IN
    FAdd(FMul(FNot(b.is_extension), b.is_c1),
    FAdd(FMul(b.is_short_c16, b.is_c16),
    FAdd(FMul(b.is_short_c1, b.is_c1),
    FAdd(FMul(b.is_long_even_c16, b.is_c1),
    FAdd(FMul(b.is_long_even_c1, b.is_c16),
    FAdd(FMul(b.is_long_odd_c16, b.is_c16),
         FMul(b.is_long_odd_c1, b.is_c1)))))))

IsPlaceholderBranchInFirstLevel == FNot(cells.not_first_level_branch_init)

\* the key RLC read at the first child of the placeholder branch itself
PlaceholderKeyRlcThroughPlaceholder ==
    IfElseX(FNot(IsPlaceholderBranchInFirstLevel), cells.key_rlc_first_child, 0)

\* (key_rlc_prev, key_mult_prev) below a placeholder branch
PlaceholderKeyRlcPrev ==
    IfElseX(FNot(IsPlaceholderBranchInFirstLevel),
            cells.key_rlc_first_child_prev, 0)

PlaceholderKeyMultPrev ==
    IfElseX(FNot(IsPlaceholderBranchInFirstLevel),
            cells.key_mult_first_child_prev, 1)

\* nibbles_count_prev below a placeholder branch
PlaceholderNibblesCountPrev ==
    IfX(cells.not_first_level_first_child, cells.nibbles_counter_prev)

\* the four values when the branch above is no placeholder
RegularKeyRlcPrev == IfElseX(cells.not_first_level, cells.key_rlc_first_child, 0)
RegularKeyMultPrev == IfElseX(cells.not_first_level, cells.key_mult_first_child, 1)
RegularNibblesCountPrev == IfElseX(cells.not_first_level, cells.nibbles_counter, 0)
RegularIsC16 == IfElseX(cells.not_first_level, cells.is_c16, 0)

\* let (key_rlc_prev, key_mult_prev, nibbles_count_prev, is_c16) = ifx!{...}
KeyRlcPrev == IfElseX(IsBranchPlaceholder, PlaceholderKeyRlcPrev, RegularKeyRlcPrev)
KeyMultPrev == IfElseX(IsBranchPlaceholder, PlaceholderKeyMultPrev, RegularKeyMultPrev)
NibblesCountPrev ==
    IfElseX(IsBranchPlaceholder, PlaceholderNibblesCountPrev, RegularNibblesCountPrev)
IsC16 == IfElseX(IsBranchPlaceholder, PlaceholderIsC16, RegularIsC16)

\* the multiplier advanced past the first key byte whatever the parity
KeyMultAlwaysAdvanced == FMul(KeyMultPrev, RVec[1])

\* key_mult = key_mult_prev * ifx!{is_c16 => r[0]} elsex {1}
KeyMult == FMul(KeyMultPrev, IfElseX(IsC16, RVec[1], 1))

\* the 33 terms of the key RLC, from row bytes 3..35
KeyTerms ==
    LET is_c16 == IsC16
        key_mult_prev == KeyMultPrev
        key_mult == KeyMult
    IN  SubSeq([idx \in 1..33 |->
                   IF idx = 1
                   THEN FMul(FMul(FSub(F(Byte(3)), 48), is_c16), key_mult_prev)
                   ELSE FMul(F(Byte(2 + idx)), key_mult)], 1, 33)

\* [[1.expr()].to_vec(), r.to_vec()].concat()
OneAndRVec == <<1>> \o RVec

\* the key RLC that accs.key.rlc has to hold
KeyRlcExpr == FAdd(KeyRlcPrev, RlcExpr(KeyTerms, OneAndRVec))

\* key_len = s_main.bytes[0] - 128
KeyLenExpr == FSub(F(Byte(2)), 128)

\* a leaf with an odd number of nibbles counted as if its first byte held two
NumNibblesDropsOne ==
    IfElseX(IsC16, FMul(KeyLenExpr, 2), FMul(FSub(KeyLenExpr, 1), 2))

NumNibbles ==
    IfElseX(IsC16,
            FSub(FMul(KeyLenExpr, 2), 1),
            FMul(FSub(KeyLenExpr, 1), 2))

\* the lookup made without the byte of the key length
MultLookupIndexWithoutLength == FAdd(KeyLenExpr, 2)

\* the looked-up tuple (FixedTableTag::RMult, key_len + 3, acc_s.mult)
MultLookupIndex == FAdd(KeyLenExpr, 3)

\* the length handed to cb.set_range_length
RangeLength == FAdd(1, KeyLenExpr)

---------------------------------------------------------------------------
(* The fixed table and the generic byte range check of the MPT circuit.    *)

\* the rows (FixedTableTag::RMult, ind, r^ind) of the fixed table
RMULT_MAX == 2 * HASH_WIDTH
RMultTable == {<<F(ind), RPow(ind)>> : ind \in 0..RMULT_MAX}

\* a field element read as a signed integer
Signed(x) == IF 2 * x > P THEN x - P ELSE x

\* RLC bytes zero check: s_main.bytes[j], c_main.rlp1, c_main.rlp2 with
\* j >= range_length have to be zero
ZeroPadded ==
    \A i \in 3..35 : (i - 2 >= Signed(RangeLength)) => Byte(i) = 0

---------------------------------------------------------------------------
(* AccountLeafKeyConfig::configure: the constraints.                       *)

\* require!(a!(s_main.rlp1) => 248)
RequireRlp1 == Require(1, F(Byte(0)), 248)

\* require!(a!(accs.acc_s.rlc) => rlc)
RequireAccRlc == Require(1, adv.acc_s_rlc, AccRlcExpr)

\* ifx!{not!(is_non_existing_account_proof)} require!(accs.key.rlc => address_rlc),
\* in the elsex branch of ifx!{is_branch_placeholder}
\* the address compared below a placeholder branch as well
AddressConditionEverywhere == FNot(cells.is_non_existing_account_proof)

AddressCondition ==
    FMul(FNot(IsBranchPlaceholder), FNot(cells.is_non_existing_account_proof))

RequireAddressRlc == Require(AddressCondition, adv.key_rlc, address_rlc)

\* the prefix required of the leaves with an odd number of nibbles instead
RequireEvenPrefixOnOdd == Require(IsC16, F(Byte(3)), 32)

\* ifx!{not!(is_c16)} require!(a!(s_main.bytes[1]) => 32)
RequireEvenPrefix == Require(FNot(IsC16), F(Byte(3)), 32)

\* require!(a!(accs.key.rlc) => rlc)
RequireKeyRlc == Require(1, adv.key_rlc, KeyRlcExpr)

\* require!(nibbles_count_prev + num_nibbles => 64)
RequireNibbles == Require(1, FAdd(NibblesCountPrev, NumNibbles), 64)

\* require!((FixedTableTag::RMult, key_len + 3, a!(accs.acc_s.mult)) => @"mult")
RequireMult == <<MultLookupIndex, adv.acc_s_mult>> \in RMultTable

\* if !is_s { ifx!{is_account_delete_mod}
\*     require!(or::expr([is_leaf_placeholder, branch.is_placeholder()]) => true) }
\* the delete check imposed on the S row as well
DeleteConditionBothSides == cells.is_account_delete_mod

DeleteCondition == IF is_s THEN 0 ELSE cells.is_account_delete_mod

RequireDelete ==
    Require(DeleteCondition, FOr(cells.sel2_first_child, BranchIsPlaceholder), 1)

Evaluate ==
    [ is_branch_placeholder |-> IsBranchPlaceholder,
      key_rlc_prev          |-> KeyRlcPrev,
      key_mult_prev         |-> KeyMultPrev,
      nibbles_count_prev    |-> NibblesCountPrev,
      is_c16                |-> IsC16,
      key_len               |-> KeyLenExpr,
      num_nibbles           |-> NumNibbles,
      acc_rlc               |-> AccRlcExpr,
      key_rlc               |-> KeyRlcExpr,
      rlp1                  |-> RequireRlp1,
      acc                   |-> RequireAccRlc,
      address               |-> RequireAddressRlc,
      even_prefix           |-> RequireEvenPrefix,
      key                   |-> RequireKeyRlc,
      nibbles               |-> RequireNibbles,
      mult                  |-> RequireMult,
      range                 |-> ZeroPadded,
      delete                |-> RequireDelete ]

\* the row satisfies every constraint
Accepted(c) ==
    /\ c.rlp1 /\ c.acc /\ c.address /\ c.even_prefix /\ c.key
    /\ c.nibbles /\ c.mult /\ c.range /\ c.delete

NoCfg == [ done |-> FALSE ]

Configure ==
    /\ pc \in {"assigned", "forged"}
    /\ cfg' = Evaluate
    /\ pc' = "checked"
    /\ UNCHANGED <<rowType, row, delete_byte, cells, address_rlc, pv, adv, loc, leaf>>
    /\ UNCHANGED hvars

---------------------------------------------------------------------------
(* AccountLeafKeyConfig::assign.                                           *)

S_START == 2

\* let key_len = (row.get_byte(2) - 128) as usize
AssignKeyLen == Byte(2) - 128

\* the loop running over the 36 RLP cells whatever the key length
TakenWholeRlp == Min(36, Len(row))

\* the number of bytes row.bytes.iter().take(3 + key_len) yields
Taken == Min(3 + AssignKeyLen, Len(row))

\* the multiplier advanced before the byte is added
RECURSIVE AccLoopMultFirst(_, _)
AccLoopMultFirst(bytes, n) ==
    IF n = 0 THEN 0
    ELSE FAdd(AccLoopMultFirst(bytes, n - 1), FMul(F(bytes[n]), RPow(n)))

\* acc after the loop over the first n bytes: acc += b * acc_mult; acc_mult *= r
RECURSIVE AccLoop(_, _)
AccLoop(bytes, n) ==
    IF n = 0 THEN 0
    ELSE FAdd(AccLoop(bytes, n - 1), FMul(F(bytes[n]), RPow(n - 1)))

\* acc_mult after the loop over the first n bytes
AccMultLoop(n) == RPow(n)

\* MPTConfig::compute_acc_and_mult(row, acc, mult, start, len)
RECURSIVE ComputeAccAndMult(_, _, _, _, _)
ComputeAccAndMult(bytes, acc, mult, start, len) ==
    IF len <= 0 THEN <<acc, mult>>
    ELSE ComputeAccAndMult(bytes, FAdd(acc, FMul(F(bytes[start + 1]), mult)),
                           FMul(mult, R), start + 1, len - 1)

\* MPTConfig::compute_key_rlc(row, key_rlc, key_rlc_mult, start): the leaf's
\* bytes folded into the key RLC; an odd number of nibbles (a first key byte
\* other than 32) gives the nibble byte - 48 at the current multiplier
ComputeKeyRlc(bytes, key_rlc, key_rlc_mult, start) ==
    LET even == bytes[start + 2] = 32
        len == bytes[start + 1] - 128
        rlc0 == IF even THEN key_rlc
                ELSE FAdd(key_rlc, FMul(FSub(F(bytes[start + 2]), 48), key_rlc_mult))
        mult0 == IF even THEN key_rlc_mult ELSE FMul(key_rlc_mult, R)
    IN  ComputeAccAndMult(bytes, rlc0, mult0, start + 2, len - 1)

\* the rows that restart from the checkpoint before the placeholder branch
StartsFromPrev ==
    \/ pv.is_branch_s_placeholder /\ rowType = "AccountLeafKeyS"
    \/ pv.is_branch_c_placeholder /\ rowType = "AccountLeafKeyC"

KeyRlcStart == IF StartsFromPrev THEN pv.key_rlc_prev ELSE pv.key_rlc
KeyRlcMultStart == IF StartsFromPrev THEN pv.key_rlc_mult_prev ELSE pv.key_rlc_mult

\* the indicator raised on the rows of both sides
RaisesDeleteEitherSide == delete_byte = 1

\* the delete lookup is enabled: proof_type is assigned 5
RaisesDelete == rowType = "AccountLeafKeyS" /\ delete_byte = 1

\* compute_key_rlc run on the key RLC of ProofValues itself instead of on copies
AssignedPvKeyInPlace(acc, acc_mult) ==
    LET key == ComputeKeyRlc(row, KeyRlcStart, KeyRlcMultStart, S_START)
        side == IF rowType = "AccountLeafKeyS"
                THEN [pv EXCEPT !.acc_account_s = acc,
                                !.acc_mult_account_s = acc_mult]
                ELSE [pv EXCEPT !.acc_account_c = acc,
                                !.acc_mult_account_c = acc_mult]
    IN  [side EXCEPT !.key_rlc = key[1], !.key_rlc_mult = key[2]]

\* ProofValues after assign: the accumulator of the row's side is stored,
\* key_rlc_new and key_rlc_mult_new are locals
AssignedPv(acc, acc_mult) ==
    IF rowType = "AccountLeafKeyS"
    THEN [pv EXCEPT !.acc_account_s = acc,
                    !.acc_mult_account_s = acc_mult]
    ELSE [pv EXCEPT !.acc_account_c = acc,
                    !.acc_mult_account_c = acc_mult]

Assign ==
    /\ pc = "witness"
    /\ LET acc == AccLoop(row, Taken)
           acc_mult == AccMultLoop(Taken)
           key == ComputeKeyRlc(row, KeyRlcStart, KeyRlcMultStart, S_START)
       IN  /\ pv' = AssignedPv(acc, acc_mult)
           /\ adv' = [ key_rlc |-> key[1],
                       acc_s_rlc |-> acc,
                       acc_s_mult |-> acc_mult,
                       acc_c_rlc |-> 0,
                       acc_c_mult |-> 0,
                       proof_type |-> IF RaisesDelete THEN 5 ELSE adv.proof_type ]
           /\ loc' = [ key_len |-> AssignKeyLen,
                       key_rlc_start |-> KeyRlcStart,
                       key_rlc_mult_start |-> KeyRlcMultStart ]
    /\ leaf' = Append(leaf, [ type |-> rowType,
                              key_rlc_start |-> KeyRlcStart,
                              key_rlc_mult_start |-> KeyRlcMultStart ])
    /\ pc' = "assigned"
    /\ UNCHANGED <<rowType, row, delete_byte, cells, address_rlc, cfg>>
    /\ UNCHANGED hvars

\* the advice cells of a row that has not been assigned
NoAdv ==
    [ key_rlc |-> 0, acc_s_rlc |-> 0, acc_s_mult |-> 0,
      acc_c_rlc |-> 0, acc_c_mult |-> 0, proof_type |-> 0 ]

\* The assignment pass goes on from the ACCOUNT_LEAF_KEY_S row of a leaf to its
\* ACCOUNT_LEAF_KEY_C row, one row below, with the same ProofValues.
NextLeafRow ==
    /\ pc = "assigned"
    /\ rowType = "AccountLeafKeyS"
    /\ Len(leaf) = 1
    /\ rowType' = "AccountLeafKeyC"
    /\ adv' = NoAdv
    /\ pc' = "witness"
    /\ UNCHANGED <<row, delete_byte, cells, address_rlc, pv, loc, leaf, cfg>>
    /\ UNCHANGED hvars

---------------------------------------------------------------------------
(* The prover is free to fill an advice cell with another value than       *)
(* assign computes.                                                        *)

ForgeExps == {3, 36}
ForgeVals == {RPow(e) : e \in ForgeExps}
ForgeCols == {"key_rlc", "acc_s_rlc", "acc_s_mult"}

Forge ==
    /\ pc = "assigned"
    /\ \E col \in ForgeCols, v \in ForgeVals :
          /\ adv[col] # v
          /\ adv' = [adv EXCEPT ![col] = v]
    /\ pc' = "forged"
    /\ UNCHANGED <<rowType, row, delete_byte, cells, address_rlc, pv, loc, leaf, cfg>>
    /\ UNCHANGED hvars

---------------------------------------------------------------------------
(* The inputs: witness rows, branch contexts and proof values.             *)

RowTypes == {"AccountLeafKeyS", "AccountLeafKeyC"}

\* the largest key seed, and the largest nibble counts of the branch above
\* and of the branch above that one
MaxSeed == 1
MaxNibbles == 3
MaxPrevNibbles == 1

\* key byte j of the key with the given seed, never zero
KeyByte(j, seed) == ((j * 37 + seed * 101) % 255) + 1

\* A row [248, 106, 128 + kl, fb, key bytes .., 0, ..]: kl key bytes, the first
\* of them fb.  junk = 1 puts a non-zero byte right after the key, junk = 2
\* at c_main.rlp2.
MkRow(kl, fb, seed, junk) ==
    [i \in 1..ROW_LEN |->
        LET j == i - 1 IN
        IF j = 0 THEN 248
        ELSE IF j = 1 THEN 106
        ELSE IF j = 2 THEN 128 + kl
        ELSE IF j = 3 /\ kl >= 1 THEN fb
        ELSE IF j < 3 + kl THEN KeyByte(j, seed)
        ELSE IF junk = 1 /\ j = 3 + kl THEN 9
        ELSE IF junk = 2 /\ j = 35 THEN 9
        ELSE 0]

FirstBytes == {32, 51}

ShapeNames ==
    {"branch", "short_c16", "short_c1", "long_even_c16", "long_even_c1",
     "long_odd_c16", "long_odd_c1"}

Bit(b) == IF b THEN 1 ELSE 0

\* the cells of the rows above a leaf one level below a first-level branch
BaseCells ==
    [ not_first_level |-> 1,
      not_first_level_branch_init |-> 1,
      not_first_level_first_child |-> 1,
      is_branch_s_placeholder |-> 0,
      is_branch_c_placeholder |-> 0,
      is_extension |-> 0,
      is_short_c16 |-> 0,
      is_short_c1 |-> 0,
      is_long_even_c16 |-> 0,
      is_long_even_c1 |-> 0,
      is_long_odd_c16 |-> 0,
      is_long_odd_c1 |-> 0,
      is_c16 |-> 1,
      is_c1 |-> 0,
      nibbles_counter |-> 1,
      nibbles_counter_prev |-> 0,
      key_rlc_first_child |-> 80,
      key_mult_first_child |-> 1,
      key_rlc_first_child_prev |-> 0,
      key_mult_first_child_prev |-> 1,
      sel2_first_child |-> 0,
      is_non_existing_account_proof |-> 0,
      is_account_delete_mod |-> 0 ]

WithShape(c, shape) ==
    [c EXCEPT !.is_extension = Bit(shape # "branch"),
              !.is_short_c16 = Bit(shape = "short_c16"),
              !.is_short_c1 = Bit(shape = "short_c1"),
              !.is_long_even_c16 = Bit(shape = "long_even_c16"),
              !.is_long_even_c1 = Bit(shape = "long_even_c1"),
              !.is_long_odd_c16 = Bit(shape = "long_odd_c16"),
              !.is_long_odd_c1 = Bit(shape = "long_odd_c1")]

WithParity(c, c16) == [c EXCEPT !.is_c16 = c16, !.is_c1 = 1 - c16]

\* the placeholder flag ph on the side of the row, none on the other side
WithPlaceholder(c, type, ph) ==
    [c EXCEPT !.is_branch_s_placeholder = IF type = "AccountLeafKeyS" THEN ph ELSE 0,
              !.is_branch_c_placeholder = IF type = "AccountLeafKeyC" THEN ph ELSE 0]

WithLevels(c, nfl, init, child) ==
    [c EXCEPT !.not_first_level = nfl,
              !.not_first_level_branch_init = init,
              !.not_first_level_first_child = child]

WithNibbles(c, n, prev) ==
    [c EXCEPT !.nibbles_counter = n, !.nibbles_counter_prev = prev]

\* ProofValues in step with the cells of the rows above: a proof starts
\* from ProofValues::new and every branch stores what it assigns
SyncedPv ==
    LET deep == cells.not_first_level = 1 IN
    [ key_rlc |-> IF deep THEN cells.key_rlc_first_child ELSE 0,
      key_rlc_mult |-> IF deep THEN cells.key_mult_first_child ELSE 1,
      key_rlc_prev |->
          IF deep /\ cells.not_first_level_branch_init = 1
          THEN cells.key_rlc_first_child_prev ELSE 0,
      key_rlc_mult_prev |->
          IF deep /\ cells.not_first_level_branch_init = 1
          THEN cells.key_mult_first_child_prev ELSE 1,
      is_branch_s_placeholder |-> deep /\ cells.is_branch_s_placeholder = 1,
      is_branch_c_placeholder |-> deep /\ cells.is_branch_c_placeholder = 1,
      acc_account_s |-> 0,
      acc_mult_account_s |-> 1,
      acc_account_c |-> 0,
      acc_mult_account_c |-> 1 ]

NoLoc == [ key_len |-> 0, key_rlc_start |-> 0, key_rlc_mult_start |-> 1 ]

\* what the model leaves fixed at the start
InitRest ==
    /\ adv = NoAdv
    /\ loc = NoLoc
    /\ leaf = << >>
    /\ cfg = NoCfg
    /\ pc = "witness"
    /\ HarnessIdle

\* the address RLC of the surrounding circuit: the key RLC of the row, or another
Addresses(c) == {c, FAdd(c, 1)}

WithKeys(c, deep) ==
    [c EXCEPT !.key_rlc_first_child = IF deep THEN 3 ELSE 80,
              !.key_mult_first_child = IF deep THEN R ELSE 1,
              !.key_rlc_first_child_prev = IF deep THEN 48 ELSE 0,
              !.key_mult_first_child_prev = IF deep THEN R ELSE 1]

KeyLens == {0, 1, 2, 31, 32, 33, 34}

\* Leaves at all depths: every level flag, branch shape, parity and nibble count.
NibbleCounts == (0..MaxNibbles) \cup {64}
PrevNibbleCounts == 0..MaxPrevNibbles

InitDepth ==
    /\ rowType \in RowTypes
    /\ row \in {MkRow(32, fb, 1, 0) : fb \in FirstBytes}
             \cup {MkRow(33, fb, 1, 0) : fb \in FirstBytes} \cup {MkRow(1, 32, 1, 0)}
    /\ delete_byte = 0
    /\ \E nfl \in 0..1, child \in 0..1, ph \in 0..1, c16 \in 0..1,
          n \in NibbleCounts, prev \in PrevNibbleCounts :
       \E shape \in IF ph = 1 /\ nfl = 1 THEN ShapeNames ELSE {"branch"} :
          cells = WithNibbles(WithParity(WithShape(WithPlaceholder(
                      WithLevels(BaseCells, nfl, child, child), rowType, ph),
                      shape), c16), n, prev)
    /\ pv = SyncedPv
    /\ address_rlc = KeyRlcExpr
    /\ InitRest

\* Key RLCs: the checkpoints of the rows above, the address and the proof type.
InitKeys ==
    /\ rowType \in RowTypes
    /\ row \in {MkRow(32, fb, seed, 0) : fb \in FirstBytes, seed \in 0..MaxSeed}
             \cup {MkRow(33, 32, 0, 0)}
    /\ delete_byte = 0
    /\ \E nfl \in 0..1, ph \in 0..1, c16 \in 0..1, deep \in BOOLEAN,
          nonexisting \in 0..1, n \in 0..2 :
       \E init \in IF ph = 1 /\ nfl = 1 THEN 0..1 ELSE {1},
          shape \in IF ph = 1 /\ nfl = 1 THEN {"branch", "short_c16"} ELSE {"branch"} :
          cells = [WithKeys(WithNibbles(WithParity(WithShape(WithPlaceholder(
                       WithLevels(BaseCells, nfl, init, init), rowType, ph),
                       shape), c16), n, n), deep)
                   EXCEPT !.is_non_existing_account_proof = nonexisting]
    /\ pv = SyncedPv
    /\ address_rlc \in Addresses(KeyRlcExpr)
    /\ InitRest

\* Assignment: every key length, junk behind the key, proof values of any kind.
InitRows ==
    /\ rowType \in RowTypes
    /\ row \in {MkRow(kl, fb, 1, junk) : kl \in KeyLens, fb \in FirstBytes, junk \in 0..2}
    /\ delete_byte = 0
    /\ \E nfl \in 0..1 : cells = WithLevels(BaseCells, nfl, 1, 1)
    /\ \E deep \in BOOLEAN, s \in BOOLEAN, c \in BOOLEAN :
          pv = [ key_rlc |-> IF deep THEN 3 ELSE 80,
                 key_rlc_mult |-> IF deep THEN R ELSE 1,
                 key_rlc_prev |-> IF deep THEN 48 ELSE 0,
                 key_rlc_mult_prev |-> IF deep THEN R ELSE 1,
                 is_branch_s_placeholder |-> s,
                 is_branch_c_placeholder |-> c,
                 acc_account_s |-> 0,
                 acc_mult_account_s |-> 1,
                 acc_account_c |-> 0,
                 acc_mult_account_c |-> 1 ]
    /\ address_rlc = KeyRlcExpr
    /\ InitRest

\* the byte at IS_ACCOUNT_DELETE_MOD_POS from the end of the row: unset, set,
\* or another value
DeleteBytes == {0, 1, 2}

\* Account deletion: the proof type, the leaf placeholder, both branch placeholders.
InitDelete ==
    /\ rowType \in RowTypes
    /\ row \in {MkRow(32, 51, 1, 0), MkRow(33, 32, 1, 0)}
    /\ delete_byte \in DeleteBytes
    /\ \E nfl \in 0..1, phs \in 0..1, phc \in 0..1, sel2 \in 0..1,
          c16 \in 0..1, n \in 0..2 :
          cells = [WithNibbles(WithParity(WithLevels(BaseCells, nfl, 1, 1), c16), n, n)
                   EXCEPT !.is_branch_s_placeholder = phs,
                          !.is_branch_c_placeholder = phc,
                          !.sel2_first_child = sel2,
                          !.is_account_delete_mod = Bit(delete_byte = 1)]
    /\ pv = SyncedPv
    /\ address_rlc = KeyRlcExpr
    /\ InitRest

\* The multiplier lookup: key lengths up to the end of the fixed table and beyond.
LookupKeyLens == KeyLens \cup {61, 62}

InitLookup ==
    /\ rowType \in RowTypes
    /\ row \in {MkRow(kl, 32, 1, 0) : kl \in LookupKeyLens}
    /\ delete_byte = 0
    /\ \E nfl \in 0..1 : cells = WithNibbles(WithLevels(BaseCells, nfl, 1, 1), 2, 0)
    /\ pv = SyncedPv
    /\ address_rlc = KeyRlcExpr
    /\ InitRest

Init == InitDepth \/ InitKeys \/ InitRows \/ InitDelete \/ InitLookup

Next == Assign \/ NextLeafRow \/ Forge \/ Configure

Spec == Init /\ [][Next]_vars

---------------------------------------------------------------------------
(* The state-test harness: StateTest::check_post.                          *)

\* Option<T>
None == [some |-> FALSE]
Some(v) == [some |-> TRUE, v |-> v]

\* Result<(), StateTestError>
Ok == [kind |-> "Ok"]
CircuitInput(msg) == [kind |-> "CircuitInput", msg |-> msg]
BalanceMismatch(e, f) == [kind |-> "BalanceMismatch", expected |-> e, found |-> f]
NonceMismatch(e, f) == [kind |-> "NonceMismatch", expected |-> e, found |-> f]
CodeMismatch(e, f) == [kind |-> "CodeMismatch", expected |-> e, found |-> f]
StorageMismatch(s, e, f) ==
    [kind |-> "StorageMismatch", slot |-> s, expected |-> e, found |-> f]
TestMaxGasLimit(g) == [kind |-> "TestMaxGasLimit", gas |-> g]
UnimplementedOpcode(name) == [kind |-> "UnimplementedOpcode", op |-> name]

\* the account builder.sdb.get_account answers for an address it does not hold
AccountZero == [balance |-> 0, nonce |-> 0, code_hash |-> 0, storage |-> << >>]

\* builder.sdb.get_account(&address)
GetAccount(sdb, address) ==
    IF address \in DOMAIN sdb THEN sdb[address] ELSE AccountZero

\* actual_code: empty for a zero code hash, builder.code_db.0[&actual.code_hash]
\* otherwise
ActualCode(builder, actual) ==
    IF actual.code_hash = 0 THEN << >>
    ELSE builder.code_db[actual.code_hash]

\* the order in which a HashMap with the keys S is iterated, taken from an
\* order of all keys
IterOrder(S, order) == SelectSeq(order, LAMBDA k : k \in S)

\* the orders in which the keys S can be iterated
Orders(S) ==
    {o \in [1..Cardinality(S) -> S] :
        \A i, j \in 1..Cardinality(S) : o[i] = o[j] => i = j}

\* for (slot, expected_value) in &expected.storage { .. }
RECURSIVE CheckStorage(_, _, _)
CheckStorage(expected_storage, actual, slots) ==
    IF slots = << >> THEN Ok
    ELSE LET slot == Head(slots)
             expected_value == expected_storage[slot]
             actual_value == IF slot \in DOMAIN actual.storage
                             THEN actual.storage[slot] ELSE 0
         IN  IF expected_value # actual_value
             THEN StorageMismatch(slot, expected_value, actual_value)
             ELSE CheckStorage(expected_storage, actual, Tail(slots))

\* the body of the loop with the nonce compared before the balance
CheckAccountNonceFirst(builder, address, expected, slots) ==
    LET actual == GetAccount(builder.sdb, address) IN
    IF expected.nonce.some /\ expected.nonce.v # actual.nonce
    THEN NonceMismatch(expected.nonce.v, actual.nonce)
    ELSE IF expected.balance.some /\ expected.balance.v # actual.balance
    THEN BalanceMismatch(expected.balance.v, actual.balance)
    ELSE IF expected.code.some /\ ActualCode(builder, actual) # expected.code.v
    THEN CodeMismatch(expected.code.v, ActualCode(builder, actual))
    ELSE CheckStorage(expected.storage, actual, slots)

\* the body of the loop over post: one expected account against the actual one
CheckAccount(builder, address, expected, slots) ==
    LET actual == GetAccount(builder.sdb, address) IN
    IF expected.balance.some /\ expected.balance.v # actual.balance
    THEN BalanceMismatch(expected.balance.v, actual.balance)
    ELSE IF expected.nonce.some /\ expected.nonce.v # actual.nonce
    THEN NonceMismatch(expected.nonce.v, actual.nonce)
    ELSE IF expected.code.some /\ ActualCode(builder, actual) # expected.code.v
    THEN CodeMismatch(expected.code.v, ActualCode(builder, actual))
    ELSE CheckStorage(expected.storage, actual, slots)

\* StateTest::check_post(builder, post), the accounts of post iterated in
\* order and the slots of an account in slot_order
RECURSIVE CheckPostLoop(_, _, _, _)
CheckPostLoop(builder, post, order, slot_order) ==
    IF order = << >> THEN Ok
    ELSE LET address == Head(order)
             expected == post[address]
             res == CheckAccount(builder, address, expected,
                                 IterOrder(DOMAIN expected.storage, slot_order))
         IN  IF res.kind # "Ok" THEN res
             ELSE CheckPostLoop(builder, post, Tail(order), slot_order)


---------------------------------------------------------------------------
(* The state-test harness: StateTest::run.                                 *)

\* format!("{:?}", step.op): the name of an opcode
OpName(op) ==
    CASE op = 1 -> "ADD"
      [] op = 85 -> "SSTORE"
      [] op = 245 -> "CREATE2"

\* the index of the first step of the trace whose opcode is unimplemented,
\* 0 when there is none: struct_logs.iter().find(..)
FindUnimplemented(ops, unimplemented) ==
    LET hits == {i \in 1..Len(ops) : ops[i] \in unimplemented}
    IN  IF hits = {} THEN 0 ELSE CHOOSE i \in hits : \A j \in hits : i <= j

\* the input builder of a test: the state after the block and the code database
Builder == [sdb |-> test.sdb, code_db |-> test.code_db]

\* external_tracer::trace(&trace_config).map_err(CircuitInput)?
Trace ==
    /\ hpc = "start"
    /\ log' = Append(log, "trace")
    /\ IF test.trace_ok
       THEN /\ hpc' = "traced"
            /\ UNCHANGED result
       ELSE /\ hpc' = "returned"
            /\ result' = CircuitInput("trace")
    /\ UNCHANGED test
    /\ UNCHANGED cvars

\* the gas compared with >= instead of >
ExceedsMaxGasInclusive == test.gas >= test.max_gas

\* geth_traces[0].gas > config.max_gas
ExceedsMaxGas == test.gas > test.max_gas

\* if geth_traces[0].gas > config.max_gas { return Err(TestMaxGasLimit(..)) }
CheckMaxGas ==
    /\ hpc = "traced"
    /\ IF ExceedsMaxGas
       THEN /\ hpc' = "returned"
            /\ result' = TestMaxGasLimit(test.gas)
       ELSE /\ hpc' = "gas_checked"
            /\ UNCHANGED result
    /\ UNCHANGED <<test, log>>
    /\ UNCHANGED cvars

\* if let Some(step) = ..find(..) { return Err(UnimplementedOpcode(..)) }
CheckOpcodes ==
    /\ hpc = "gas_checked"
    /\ LET step == FindUnimplemented(test.ops, test.unimplemented_opcodes) IN
       IF step # 0
       THEN /\ hpc' = "returned"
            /\ result' = UnimplementedOpcode(OpName(test.ops[step]))
       ELSE /\ hpc' = "opcodes_checked"
            /\ UNCHANGED result
    /\ UNCHANGED <<test, log>>
    /\ UNCHANGED cvars

\* let builder = Self::create_input_builder(trace_config, geth_traces)?
CreateInputBuilder ==
    /\ hpc = "opcodes_checked"
    /\ log' = Append(log, "create_input_builder")
    /\ IF test.builder_ok
       THEN /\ hpc' = "built"
            /\ UNCHANGED result
       ELSE /\ hpc' = "returned"
            /\ result' = CircuitInput("handle_block")
    /\ UNCHANGED test
    /\ UNCHANGED cvars

\* Self::check_post(&builder, &post)?
CheckPost ==
    /\ hpc = "built"
    /\ log' = Append(log, "check_post")
    /\ \E order \in Orders(DOMAIN test.post), slot_order \in Orders(test.slots) :
          LET res == CheckPostLoop(Builder, test.post, order, slot_order) IN
          IF res.kind = "Ok"
          THEN /\ hpc' = "post_checked"
               /\ UNCHANGED result
          ELSE /\ hpc' = "returned"
               /\ result' = res
    /\ UNCHANGED test
    /\ UNCHANGED cvars

\* Self::test_circuit(self, &builder); Ok(())
\* a circuit that does not pass panics in expect("circuit should pass")
TestCircuit ==
    /\ hpc = "post_checked"
    /\ log' = Append(log, "test_circuit")
    /\ IF test.circuit_ok
       THEN /\ hpc' = "returned"
            /\ result' = Ok
       ELSE /\ hpc' = "panicked"
            /\ UNCHANGED result
    /\ UNCHANGED test
    /\ UNCHANGED cvars

---------------------------------------------------------------------------
(* The inputs of the harness.                                              *)

MaxValue == 1
MaxSteps == 2

Values == 0..MaxValue
Addrs == {"a1", "a2"}
Slots == {1, 2}
Codes == {<< >>, <<96>>}

\* builder.code_db: the code of every code hash the state holds; 1 is the
\* hash of the empty code, 2 the hash of the code <<96>>
CodeDb == (1 :> << >>) @@ (2 :> <<96>>)

OptValues == {None} \cup {Some(v) : v \in Values}
OptCodes == {None} \cup {Some(c) : c \in Codes}
Storages == UNION {[D -> Values] : D \in SUBSET Slots}

\* AccountMatch: every combination of specified and unspecified fields
ExpectedAll ==
    [balance : OptValues, nonce : OptValues, code : OptCodes, storage : Storages]

\* a second expected account: nothing specified, a balance, a storage slot
SecondExpected ==
    { [balance |-> None, nonce |-> None, code |-> None, storage |-> << >>],
      [balance |-> Some(1), nonce |-> None, code |-> None, storage |-> << >>],
      [balance |-> None, nonce |-> Some(0), code |-> None, storage |-> (2 :> 1)] }

Posts ==
    {<< >>}
       \cup {("a1" :> e) : e \in ExpectedAll}
       \cup {("a1" :> e) @@ ("a2" :> f) : e \in ExpectedAll, f \in SecondExpected}

\* the accounts the state may hold
ActualAccounts ==
    { [balance |-> 1, nonce |-> 1, code_hash |-> 2, storage |-> (1 :> 1)],
      [balance |-> 0, nonce |-> 1, code_hash |-> 1, storage |-> (2 :> 1)],
      [balance |-> 1, nonce |-> 0, code_hash |-> 0, storage |-> << >>] }

SecondActual == [balance |-> 1, nonce |-> 0, code_hash |-> 1, storage |-> (2 :> 1)]

Sdbs ==
    {[a \in D |-> IF a = "a1" THEN x ELSE SecondActual] :
        D \in SUBSET Addrs, x \in ActualAccounts}

\* tests that reach check_post, with every expected account against every state
PostTests ==
    {[id |-> "post", trace_ok |-> TRUE, gas |-> 1, max_gas |-> 1,
      ops |-> <<1>>, unimplemented_opcodes |-> {}, builder_ok |-> TRUE,
      circuit_ok |-> TRUE, post |-> p, sdb |-> d, code_db |-> CodeDb,
      slots |-> Slots] : p \in Posts, d \in Sdbs}

Opcodes == {1, 85, 245}
Traces == UNION {[1..n -> Opcodes] : n \in 0..MaxSteps}
UnimplementedSets == {{}, {85}, {85, 245}}
Gases == 0..3
MaxGases == {1, 2}

\* a post state that matches the state of RunSdb, and one that does not
RunPosts ==
    { ("a1" :> [balance |-> Some(1), nonce |-> None, code |-> Some(<<96>>),
                storage |-> (1 :> 1)]),
      ("a1" :> [balance |-> Some(0), nonce |-> None, code |-> None,
                storage |-> << >>]) }

RunSdb == ("a1" :> [balance |-> 1, nonce |-> 1, code_hash |-> 2, storage |-> (1 :> 1)])

\* tests of every outcome of the trace, the gas, the opcodes, the builder and
\* the circuit
RunTests ==
    {[id |-> "run", trace_ok |-> t, gas |-> g, max_gas |-> m,
      ops |-> o, unimplemented_opcodes |-> u, builder_ok |-> b,
      circuit_ok |-> c, post |-> p, sdb |-> RunSdb, code_db |-> CodeDb,
      slots |-> Slots] :
        t \in BOOLEAN, g \in Gases, m \in MaxGases, o \in Traces,
        u \in UnimplementedSets, b \in BOOLEAN, c \in BOOLEAN, p \in RunPosts}

\* no leaf row is being assigned while the harness runs
CircuitIdle ==
    /\ rowType = "AccountLeafKeyS"
    /\ row = MkRow(33, 32, 1, 0)
    /\ delete_byte = 0
    /\ cells = BaseCells
    /\ address_rlc = 0
    /\ pv = SyncedPv
    /\ adv = NoAdv
    /\ loc = NoLoc
    /\ leaf = << >>
    /\ cfg = NoCfg
    /\ pc = "idle"

HarnessInit ==
    /\ CircuitIdle
    /\ test \in PostTests \cup RunTests
    /\ hpc = "start"
    /\ result = NoResult
    /\ log = << >>

HarnessNext ==
    \/ Trace
    \/ CheckMaxGas
    \/ CheckOpcodes
    \/ CreateInputBuilder
    \/ CheckPost
    \/ TestCircuit

HarnessSpec == HarnessInit /\ [][HarnessNext]_vars

---------------------------------------------------------------------------
(* Properties.                                                             *)

Checked == pc = "checked"
AcceptedRow == Checked /\ Accepted(cfg)

\* the declared key length, as an integer
KeyLen == Byte(2) - 128

\* the leaf is below a placeholder branch that is not in the first level
BelowPlaceholder == cells.not_first_level = 1 /\ BranchIsPlaceholder = 1

\* r^n
RECURSIVE PowerOfR(_)
PowerOfR(n) == IF n = 0 THEN 1 ELSE (PowerOfR(n - 1) * R) % P

\* the nibbles the leaf holds, from the declared key length and the parity
LeafNibbles(odd) == IF odd THEN 2 * KeyLen - 1 ELSE 2 * (KeyLen - 1)

(* C1: nibble closure.  A leaf key row passes the nibble constraint exactly  *)
(* when the nibbles counted above the leaf plus the nibbles of the leaf,     *)
(* 2 * key_len - 1 with odd parity (is_c16 = 1) and 2 * (key_len - 1) with   *)
(* even parity, are 64; so every accepted row closes at 64 and every other   *)
(* split is rejected.                                                        *)
C1_NibbleClosure ==
    Checked =>
        /\ cfg.is_c16 \in {0, 1}
        /\ cfg.nibbles <=>
              Signed(cfg.nibbles_count_prev) + LeafNibbles(cfg.is_c16 = 1) = 64
        /\ Accepted(cfg) => cfg.nibbles

\* an accepted leaf with an odd number of nibbles below a branch
C1_Witness ==
    /\ AcceptedRow
    /\ cells.not_first_level = 1
    /\ cfg.is_c16 = 1
    /\ cfg.nibbles_count_prev = 1
    /\ KeyLen = 32

(* C2 as stated: every accepted leaf key row that is not marked as a        *)
(* non-existing-account proof has its key RLC equal to address_rlc.          *)
C2_OnlyNonExistingExempt ==
    (AcceptedRow /\ cells.is_non_existing_account_proof = 0)
        => adv.key_rlc = address_rlc

(* C2 as amended: the key RLC is compared with address_rlc exactly on the    *)
(* rows that are neither marked as a non-existing-account proof nor below a  *)
(* placeholder branch; an accepted row of that kind has accs.key.rlc equal   *)
(* to address_rlc, and rows below a placeholder branch are exempt as well.   *)
C2_AddressRlc ==
    Checked =>
        /\ cfg.address <=>
              \/ cells.is_non_existing_account_proof = 1
              \/ BelowPlaceholder
              \/ adv.key_rlc = address_rlc
        /\ Accepted(cfg) => cfg.address

\* an accepted existing-account leaf below a regular branch, at its address
C2_Witness ==
    /\ AcceptedRow
    /\ cells.is_non_existing_account_proof = 0
    /\ cells.not_first_level = 1
    /\ BranchIsPlaceholder = 0
    /\ adv.key_rlc = address_rlc
    /\ adv.key_rlc # 0

\* the parity of the leaf that C3 expects below a placeholder branch
ExpectedPlaceholderIsC16 ==
    IF cells.is_extension = 0 THEN 1 - cells.is_c16
    ELSE IF cells.is_short_c16 + cells.is_short_c1
            + cells.is_long_odd_c16 + cells.is_long_odd_c1 = 1
         THEN cells.is_c16
         ELSE 1 - cells.is_c16

\* the _c16 / _c1 indicator of an extension agrees with is_c16 / is_c1 of its branch
SuffixesAgree ==
    /\ cells.is_short_c16 + cells.is_long_even_c16 + cells.is_long_odd_c16 = 1
          => cells.is_c16 = 1
    /\ cells.is_short_c1 + cells.is_long_even_c1 + cells.is_long_odd_c1 = 1
          => cells.is_c1 = 1

(* C3: below a placeholder branch (not in the first level) the parity is_c16 *)
(* of the leaf is the opposite of the parallel branch's is_c16 when the      *)
(* parallel node is a plain branch or an extension with an even number of    *)
(* nibbles, and equal to it when the parallel node is an extension with an   *)
(* odd number of nibbles.                                                    *)
C3_PlaceholderParity ==
    (Checked /\ cfg.is_branch_placeholder = 1 /\ SuffixesAgree)
        => cfg.is_c16 = ExpectedPlaceholderIsC16

\* sum over i = from .. 32 of byte_(3 + i) * mult, where mult is multiplied
\* by r from one byte to the next
RECURSIVE KeyByteSum(_, _, _)
KeyByteSum(from, mult, sum) ==
    IF from > 32 THEN sum
    ELSE KeyByteSum(from + 1, (mult * R) % P, (sum + Byte(3 + from) * mult) % P)

\* the fold of the key bytes C4 describes, from key_rlc_prev and key_mult_prev:
\* byte i after the first at key_mult_prev * r^i (odd) or * r^(i - 1) (even)
FoldedKeyRlc(rlc_prev, mult_prev, odd) ==
    IF odd
    THEN (rlc_prev + ((((Byte(3) - 48 + P) % P) * mult_prev) % P)
            + KeyByteSum(1, (mult_prev * R) % P, 0)) % P
    ELSE (rlc_prev + KeyByteSum(1, mult_prev, 0)) % P

(* C4: leaf key fold.  The key RLC the constraint requires in accs.key.rlc   *)
(* is key_rlc_prev plus the fold of the row bytes from index 3: with odd     *)
(* parity (is_c16 = 1) the first key byte gives (byte - 48) * key_mult_prev  *)
(* and byte i after it gives byte_i * key_mult_prev * r^i; with even parity  *)
(* the first key byte gives nothing and byte i after it gives                *)
(* byte_i * key_mult_prev * r^(i - 1).                                       *)
C4_LeafKeyFold ==
    (Checked /\ cfg.is_c16 \in {0, 1}) =>
        LET folded ==
                FoldedKeyRlc(cfg.key_rlc_prev, cfg.key_mult_prev, cfg.is_c16 = 1)
        IN  /\ cfg.key_rlc = folded
            /\ cfg.key <=> adv.key_rlc = folded

\* an accepted leaf with an odd number of nibbles below a branch whose
\* multiplier is r
C4_Witness ==
    /\ AcceptedRow
    /\ cfg.is_c16 = 1
    /\ cfg.key_mult_prev = R
    /\ cfg.key_rlc_prev = 3
    /\ Byte(3) = 51
    /\ KeyLen = 32

\* the row whose side has the placeholder flag of ProofValues set
RestartsInAssign ==
    IF rowType = "AccountLeafKeyS" THEN pv.is_branch_s_placeholder
    ELSE pv.is_branch_c_placeholder

(* C5: placeholder restart.  Below a placeholder branch the constraint       *)
(* starts the key RLC from the (value, multiplier) of the branch one level   *)
(* above the placeholder, or from (0, 1) when the placeholder branch is in   *)
(* the first level, never from the cells of the placeholder branch itself;   *)
(* assign starts from (pv.key_rlc_prev, pv.key_rlc_mult_prev) exactly on an  *)
(* AccountLeafKeyS row with is_branch_s_placeholder or an AccountLeafKeyC    *)
(* row with is_branch_c_placeholder, and from (pv.key_rlc, pv.key_rlc_mult)  *)
(* otherwise.                                                                *)
C5_PlaceholderRestart ==
    /\ (Checked /\ cfg.is_branch_placeholder = 1) =>
          /\ cells.not_first_level_branch_init = 1 =>
                /\ cfg.key_rlc_prev = cells.key_rlc_first_child_prev
                /\ cfg.key_mult_prev = cells.key_mult_first_child_prev
          /\ cells.not_first_level_branch_init = 0 =>
                /\ cfg.key_rlc_prev = 0
                /\ cfg.key_mult_prev = 1
    /\ pc # "witness" =>
          /\ RestartsInAssign =>
                /\ loc.key_rlc_start = pv.key_rlc_prev
                /\ loc.key_rlc_mult_start = pv.key_rlc_mult_prev
          /\ ~RestartsInAssign =>
                /\ loc.key_rlc_start = pv.key_rlc
                /\ loc.key_rlc_mult_start = pv.key_rlc_mult

\* an accepted leaf below a placeholder branch, restarted from a checkpoint
\* that differs from the cells of the placeholder branch
C5_Witness ==
    /\ AcceptedRow
    /\ cfg.is_branch_placeholder = 1
    /\ cells.not_first_level_branch_init = 1
    /\ cells.key_rlc_first_child_prev # cells.key_rlc_first_child
    /\ cfg.key_rlc_prev = cells.key_rlc_first_child_prev
    /\ RestartsInAssign
    /\ loc.key_rlc_start = pv.key_rlc_prev
    /\ pv.key_rlc_prev # pv.key_rlc

(* C6: delete-proof admissibility.  An accepted AccountLeafKeyC row with     *)
(* is_account_delete_mod set has a placeholder leaf (sel2 at the first       *)
(* branch child) or a placeholder branch above; the check is imposed on the  *)
(* C row only, and only when the flag is set.                                *)
C6_DeleteAdmissible ==
    Checked =>
        /\ (Accepted(cfg) /\ ~is_s /\ cells.is_account_delete_mod = 1) =>
              \/ cells.sel2_first_child = 1
              \/ cells.is_branch_c_placeholder = 1
        /\ (~is_s /\ cells.is_account_delete_mod = 1
              /\ cells.sel2_first_child = 0 /\ cells.is_branch_c_placeholder = 0)
              => ~cfg.delete
        /\ (is_s \/ cells.is_account_delete_mod = 0) => cfg.delete

\* an accepted C row of a delete proof whose branch is a placeholder
C6_Witness ==
    /\ AcceptedRow
    /\ ~is_s
    /\ cells.is_account_delete_mod = 1
    /\ cells.sel2_first_child = 0
    /\ cells.is_branch_c_placeholder = 1

\* the multiplier r^(key_len + 3) after the RLP header and the key
ExpectedMult == PowerOfR(KeyLen + 3)

Malformed ==
    /\ KeyLen \in 0..32
    /\ \E i \in (3 + KeyLen)..35 : Byte(i) # 0

\* the 36 RLP cells with the cells behind the key cleared
KeyPart36 ==
    SubSeq([i \in 1..36 |-> IF i <= 3 + KeyLen THEN row[i] ELSE 0], 1, 36)

\* the accumulator of the row's side in ProofValues
SideAcc ==
    IF is_s THEN <<pv.acc_account_s, pv.acc_mult_account_s>>
    ELSE <<pv.acc_account_c, pv.acc_mult_account_c>>

(* C8 as stated: a row whose declared key length leaves non-zero bytes       *)
(* behind the key is detected by assign and witness-filling is aborted, so   *)
(* no advice value of the row is assigned.                                   *)
C8_MalformedAborts ==
    Malformed => (pc = "witness" /\ adv = NoAdv)

(* C8 as amended: assign does not detect a row whose declared key length     *)
(* leaves non-zero bytes behind the key.  It completes and assigns the       *)
(* advice of the row: the accumulator over the first 3 + key_len bytes only  *)
(* (the bytes behind the key are not read), the multiplier r^(key_len + 3),  *)
(* and the same pair in the side's accumulator of ProofValues.               *)
C8_MalformedAssigned ==
    (pc = "assigned" /\ Malformed) =>
        /\ adv.acc_s_rlc = RlcExpr(KeyPart36, RVec)
        /\ adv.acc_s_mult = ExpectedMult
        /\ SideAcc = <<adv.acc_s_rlc, adv.acc_s_mult>>
        /\ adv # NoAdv

\* assign has completed on a row with a non-zero byte right behind a key of
\* 31 bytes
C8_Witness ==
    /\ pc = "assigned"
    /\ Malformed
    /\ KeyLen = 31
    /\ Byte(34) # 0
    /\ adv.acc_s_mult = PowerOfR(34)
    /\ adv.acc_s_rlc # 0

\* the bytes from index 3 + key_len up to index 35 are zero
ZeroBehindKey == \A i \in (3 + KeyLen)..35 : Byte(i) = 0

C10_RootInitialState ==
    Checked =>
        /\ cells.not_first_level = 0 =>
              /\ cfg.key_rlc_prev = 0
              /\ cfg.key_mult_prev = 1
              /\ cfg.nibbles_count_prev = 0
              /\ cfg.is_c16 = 0
        /\ (cfg.is_branch_placeholder = 1 /\ cells.not_first_level_first_child = 0)
              => cfg.nibbles_count_prev = 0

\* an accepted first-level leaf whose rows above hold a placeholder flag, an
\* odd parity, a nibble count and a key RLC
C10_Witness ==
    /\ AcceptedRow
    /\ cells.not_first_level = 0
    /\ BranchIsPlaceholder = 1
    /\ cells.is_c16 = 1
    /\ cells.nibbles_counter # 0
    /\ cells.key_rlc_first_child # 0
    /\ cfg.key_rlc_prev = 0

\* a checked leaf below a placeholder branch whose first child is in the
\* first level, above it a row with a nibble count
C10_PlaceholderInFirstLevel ==
    /\ Checked
    /\ cfg.is_branch_placeholder = 1
    /\ cells.not_first_level_first_child = 0
    /\ cells.nibbles_counter_prev # 0

(* C11: even-parity prefix.  The prefix constraint holds exactly when the    *)
(* parity is odd (is_c16 = 1) or the first key byte s_main.bytes[1] is 32;   *)
(* so every accepted row with even parity, every accepted first-level leaf   *)
(* among them, has the first key byte 32, and with odd parity the constraint *)
(* holds whatever that byte is.                                              *)
C11_EvenPrefix ==
    Checked =>
        /\ cfg.even_prefix <=> (cfg.is_c16 = 1 \/ Byte(3) = 32)
        /\ (Accepted(cfg) /\ cfg.is_c16 = 0) => Byte(3) = 32
        /\ (Accepted(cfg) /\ cells.not_first_level = 0) => Byte(3) = 32
        /\ cfg.is_c16 = 1 => cfg.even_prefix

\* an accepted leaf with odd parity whose first key byte is not 32
C11_Witness ==
    /\ AcceptedRow
    /\ cfg.is_c16 = 1
    /\ Byte(3) = 51

\* a rejected leaf with even parity whose first key byte is not 32
C11_EvenRejected ==
    /\ Checked
    /\ cfg.is_c16 = 0
    /\ Byte(3) = 51
    /\ ~cfg.even_prefix

(* C12: delete indicator.  After assign the proof_type cell of the row holds *)
(* 5 if and only if the row is an AccountLeafKeyS row and its byte at        *)
(* IS_ACCOUNT_DELETE_MOD_POS from the end is 1; an AccountLeafKeyC row and a *)
(* row with another flag byte leave the cell as it was.                      *)
C12_DeleteIndicator ==
    pc # "witness" =>
        /\ adv.proof_type = 5 <=> (rowType = "AccountLeafKeyS" /\ delete_byte = 1)
        /\ adv.proof_type # 5 => adv.proof_type = NoAdv.proof_type

\* assign has raised the indicator on an S row with the flag byte 1
C12_Witness ==
    /\ pc = "assigned"
    /\ rowType = "AccountLeafKeyS"
    /\ delete_byte = 1
    /\ adv.proof_type = 5

\* assign has completed on a C row with the flag byte 1
C12_NotOnC ==
    /\ pc = "assigned"
    /\ rowType = "AccountLeafKeyC"
    /\ delete_byte = 1
    /\ adv.proof_type = 0

\* assign has completed on an S row with a flag byte that is neither 0 nor 1
C12_NotOnOtherByte ==
    /\ pc = "assigned"
    /\ rowType = "AccountLeafKeyS"
    /\ delete_byte = 2
    /\ adv.proof_type = 0

\* the expected account of a test at an address, and the state's account there
ExpectedAt(a) == test.post[a]
ActualAt(a) == IF a \in DOMAIN test.sdb THEN test.sdb[a] ELSE AccountZero

\* the code of the state's account: none for the zero code hash
CodeAt(a) ==
    IF ActualAt(a).code_hash = 0 THEN << >> ELSE test.code_db[ActualAt(a).code_hash]

\* the value of a slot of the state's account: zero for an absent slot
SlotAt(a, s) ==
    IF s \in DOMAIN ActualAt(a).storage THEN ActualAt(a).storage[s] ELSE 0

BalanceDiffers(a) ==
    ExpectedAt(a).balance.some /\ ExpectedAt(a).balance.v # ActualAt(a).balance
NonceDiffers(a) ==
    ExpectedAt(a).nonce.some /\ ExpectedAt(a).nonce.v # ActualAt(a).nonce
CodeDiffers(a) ==
    ExpectedAt(a).code.some /\ ExpectedAt(a).code.v # CodeAt(a)
SlotsDiffering(a) ==
    {s \in DOMAIN ExpectedAt(a).storage : ExpectedAt(a).storage[s] # SlotAt(a, s)}

\* the errors of the first mismatching field of an account, in the order
\* balance, nonce, code, storage
AccountErrors(a) ==
    IF BalanceDiffers(a)
    THEN {BalanceMismatch(ExpectedAt(a).balance.v, ActualAt(a).balance)}
    ELSE IF NonceDiffers(a)
    THEN {NonceMismatch(ExpectedAt(a).nonce.v, ActualAt(a).nonce)}
    ELSE IF CodeDiffers(a)
    THEN {CodeMismatch(ExpectedAt(a).code.v, CodeAt(a))}
    ELSE {StorageMismatch(s, ExpectedAt(a).storage[s], SlotAt(a, s)) :
             s \in SlotsDiffering(a)}

PostErrors == UNION {AccountErrors(a) : a \in DOMAIN test.post}

\* run has called check_post, and what check_post returned
PostChecked == Len(log) >= 3
CheckPostOk ==
    /\ PostChecked
    /\ \/ hpc \in {"post_checked", "panicked"}
       \/ hpc = "returned" /\ Len(log) = 4
CheckPostErr == PostChecked /\ hpc = "returned" /\ Len(log) = 3

(* C13: harness post-state comparison.  check_post returns Ok if and only if *)
(* no expected account has a specified field (balance, nonce, code, storage  *)
(* slot) that differs from the state, an unspecified field not compared, an  *)
(* absent slot counting as zero and a zero code hash as the empty code;      *)
(* otherwise it returns the error of the first mismatching field of an       *)
(* account in the order balance, nonce, code, storage, with that field's     *)
(* expected and found values.                                                *)
C13_CheckPost ==
    PostChecked =>
        /\ CheckPostOk <=> PostErrors = {}
        /\ CheckPostErr <=> PostErrors # {}
        /\ CheckPostErr => result \in PostErrors

\* check_post has returned the mismatch of a slot that the state's account
\* does not hold, for an account whose balance and code are specified and
\* match, one of two expected accounts
C13_Witness ==
    /\ CheckPostErr
    /\ Cardinality(DOMAIN test.post) = 2
    /\ result.kind = "StorageMismatch"
    /\ result.found = 0
    /\ result.slot \notin DOMAIN ActualAt("a1").storage
    /\ result.slot \in DOMAIN ExpectedAt("a1").storage
    /\ ExpectedAt("a1").balance.some
    /\ ExpectedAt("a1").code.some
    /\ ActualAt("a1").code_hash = 0

\* check_post has returned Ok for two expected accounts with specified fields
C13_OkReached ==
    /\ CheckPostOk
    /\ Cardinality(DOMAIN test.post) = 2
    /\ ExpectedAt("a1").balance.some
    /\ ExpectedAt("a1").code.some
    /\ ExpectedAt("a2").storage # << >>

\* the fields of ProofValues that hold the key RLC and the placeholder flags
KeyFields(v) ==
    <<v.key_rlc, v.key_rlc_mult, v.key_rlc_prev, v.key_rlc_mult_prev,
      v.is_branch_s_placeholder, v.is_branch_c_placeholder>>

\* the accumulator of the S side and of the C side in ProofValues
AccS(v) == <<v.acc_account_s, v.acc_mult_account_s>>
AccC(v) == <<v.acc_account_c, v.acc_mult_account_c>>

\* a step of assign
AssignStep == pc = "witness" /\ pc' = "assigned"

\* both rows of the leaf are assigned, and neither side's branch is a placeholder
BothRowsAssigned ==
    /\ Len(leaf) = 2
    /\ ~pv.is_branch_s_placeholder
    /\ ~pv.is_branch_c_placeholder

(* C14: assignment frame.  A step of assign on an AccountLeafKeyS row leaves *)
(* every field of ProofValues but acc_account_s and acc_mult_account_s as it *)
(* was, and on an AccountLeafKeyC row every field but acc_account_c and      *)
(* acc_mult_account_c; key_rlc, key_rlc_mult, key_rlc_prev and               *)
(* key_rlc_mult_prev are never written.  So, with no placeholder branch on   *)
(* either side, the C row of a leaf starts from the key RLC and multiplier   *)
(* the S row started from.                                                   *)
C14_AssignFrame ==
    /\ [][AssignStep =>
            /\ KeyFields(pv') = KeyFields(pv)
            /\ rowType = "AccountLeafKeyS" => AccC(pv') = AccC(pv)
            /\ rowType = "AccountLeafKeyC" => AccS(pv') = AccS(pv)]_vars
    /\ [](BothRowsAssigned =>
            /\ leaf[2].key_rlc_start = leaf[1].key_rlc_start
            /\ leaf[2].key_rlc_mult_start = leaf[1].key_rlc_mult_start)

\* the C row has been assigned after the S row of a leaf below a branch, both
\* accumulators stored and the key RLC of ProofValues as it was
C14_Witness ==
    /\ BothRowsAssigned
    /\ pc = "assigned"
    /\ rowType = "AccountLeafKeyC"
    /\ leaf[1].type = "AccountLeafKeyS"
    /\ leaf[1].key_rlc_start # 0
    /\ leaf[2].key_rlc_start = pv.key_rlc
    /\ AccS(pv) = AccC(pv)
    /\ pv.acc_account_s # 0

\* the shape indicators of the parallel branch
ShapeIndicators ==
    <<cells.is_short_c16, cells.is_short_c1, cells.is_long_even_c16,
      cells.is_long_even_c1, cells.is_long_odd_c16, cells.is_long_odd_c1>>

\* the number of non-zero entries of a sequence
NonZero(seq) == Cardinality({i \in 1..Len(seq) : seq[i] # 0})

\* the indicators are 0/1, at most one shape is set and none without
\* is_extension, and is_c16 + is_c1 = 1
ShapesWellFormed ==
    /\ cells.is_extension \in {0, 1}
    /\ \A i \in 1..6 : ShapeIndicators[i] \in {0, 1}
    /\ NonZero(ShapeIndicators) <= 1
    /\ cells.is_extension = 0 => NonZero(ShapeIndicators) = 0
    /\ cells.is_c16 \in {0, 1}
    /\ cells.is_c1 \in {0, 1}
    /\ cells.is_c16 + cells.is_c1 = 1

(* C15: the derived parity is boolean.  Below a placeholder branch whose     *)
(* parallel branch has 0/1 shape indicators, at most one of them set and     *)
(* none without is_extension, and is_c16 + is_c1 = 1, at most one product of *)
(* the placeholder parity formula is non-zero, the derived is_c16 is their   *)
(* sum, and it is 0 or 1.                                                    *)
C15_DerivedParityBoolean ==
    (Checked /\ cfg.is_branch_placeholder = 1 /\ ShapesWellFormed) =>
        /\ NonZero(PlaceholderParityTerms) <= 1
        /\ \A i \in 1..7 : PlaceholderParityTerms[i] \in {0, 1}
        /\ cfg.is_c16 \in {0, 1}
        /\ cfg.is_c16 = 1 <=> NonZero(PlaceholderParityTerms) = 1

\* a checked leaf below a placeholder branch whose parallel node is a long
\* extension with an even number of nibbles: the one product that is not zero
\* gives the parity 1
C15_Witness ==
    /\ Checked
    /\ cfg.is_branch_placeholder = 1
    /\ ShapesWellFormed
    /\ cells.is_extension = 1
    /\ cells.is_long_even_c16 = 1
    /\ cells.is_c1 = 1
    /\ PlaceholderParityTerms[4] = 1
    /\ cfg.is_c16 = 1

\* run has returned, or has panicked in test_circuit
Finished == hpc \in {"returned", "panicked"}

\* the calls of run, in the order of the source
RunCalls == <<"trace", "create_input_builder", "check_post", "test_circuit">>

\* the first step of the trace with an unimplemented opcode, 0 without one
FirstUnimplemented ==
    IF \E i \in 1..Len(test.ops) : test.ops[i] \in test.unimplemented_opcodes
    THEN CHOOSE i \in 1..Len(test.ops) :
            /\ test.ops[i] \in test.unimplemented_opcodes
            /\ \A j \in 1..(i - 1) : test.ops[j] \notin test.unimplemented_opcodes
    ELSE 0

\* the trace, the gas and the opcodes let run go on to the input builder
ChecksPassed ==
    /\ test.trace_ok
    /\ test.gas <= test.max_gas
    /\ FirstUnimplemented = 0

MismatchKinds ==
    {"BalanceMismatch", "NonceMismatch", "CodeMismatch", "StorageMismatch"}

(* C16: harness step ordering.  run makes its calls in the order trace,      *)
(* create_input_builder, check_post, test_circuit.  A trace failure yields   *)
(* CircuitInput; otherwise gas > max_gas yields TestMaxGasLimit (gas equal   *)
(* to max_gas does not); otherwise the first step with an unimplemented      *)
(* opcode yields UnimplementedOpcode; only when all three passed is the      *)
(* input builder created and check_post run; test_circuit runs only after    *)
(* check_post returned Ok, and run returns Ok only after every step passed.  *)
C16_RunOrdering ==
    /\ log = SubSeq(RunCalls, 1, Len(log))
    /\ Len(log) >= 2 => ChecksPassed
    /\ Len(log) >= 3 => test.builder_ok
    /\ Len(log) = 4 => PostErrors = {}
    /\ Finished =>
          /\ ~test.trace_ok =>
                result.kind = "CircuitInput" /\ log = <<"trace">>
          /\ (test.trace_ok /\ test.gas > test.max_gas) =>
                result = TestMaxGasLimit(test.gas) /\ log = <<"trace">>
          /\ (test.trace_ok /\ test.gas <= test.max_gas /\ FirstUnimplemented # 0) =>
                /\ result = UnimplementedOpcode(OpName(test.ops[FirstUnimplemented]))
                /\ log = <<"trace">>
          /\ result.kind = "TestMaxGasLimit" => test.gas > test.max_gas
          /\ result.kind \in MismatchKinds =>
                /\ ChecksPassed
                /\ test.builder_ok
                /\ log = SubSeq(RunCalls, 1, 3)
          /\ result = Ok <=>
                /\ ChecksPassed
                /\ test.builder_ok
                /\ PostErrors = {}
                /\ test.circuit_ok
                /\ log = RunCalls

\* run has returned the gas-limit error of a test whose trace also holds an
\* unimplemented opcode after an implemented one and whose post state does
\* not match
C16_Witness ==
    /\ hpc = "returned"
    /\ result = TestMaxGasLimit(test.gas)
    /\ test.gas = test.max_gas + 1
    /\ FirstUnimplemented = 2
    /\ PostErrors # {}
    /\ log = <<"trace">>

\* run has returned Ok for a test whose gas is max_gas
C16_AtMaxGas ==
    /\ hpc = "returned"
    /\ result = Ok
    /\ test.gas = test.max_gas
    /\ log = RunCalls

\* run has returned the unimplemented opcode of the first of two such steps,
\* for a test whose post state does not match
C16_OpcodeBeforePost ==
    /\ hpc = "returned"
    /\ result = UnimplementedOpcode("CREATE2")
    /\ test.ops = <<245, 85>>
    /\ PostErrors # {}

===========================================================================
